---- MODULE Spec2Model ----
(***************************************************************************)
(* Model of maze_generator.py: the Cell / Maze data model, the randomized  *)
(* depth-first carver (Maze.make_maze) and the two writers (write_svg,     *)
(* write_world).                                                           *)
(*                                                                         *)
(* Cell references are modelled as 0-based index pairs <<i, j>> into       *)
(* maze_map (maze_map[i][j] in the source); Python list indexing, with     *)
(* its negative-index rule and its IndexError, is modelled by PyIndex.     *)
(***************************************************************************)
EXTENDS Integers, Sequences, FiniteSets

\* Largest width / length drawn for Maze(width, length, x_start, y_start).
MaxWidth == 3
MaxLength == 2

\* Default scale argument of write_svg.
svg_scale == 10

VARIABLES
    width, length,        \* Maze.width, Maze.length
    x_start, y_start,     \* Maze.x_start, Maze.y_start
    maze_map,             \* Maze.maze_map: sequence (x) of sequences (y) of cells
    pc,                   \* position of the caller / of make_maze
    cell_stack,           \* make_maze local: stack of cell references
    current_cell,         \* make_maze local: reference of the current cell
    count,                \* make_maze local: number of visited cells
    svg_out,              \* elements written by the last write_svg
    wbt_out,              \* Wall objects written by the last write_world
    q_x, q_y,             \* arguments of a direct cell_at(x, y) call
    ret                   \* what that cell_at call produced

vars == <<width, length, x_start, y_start, maze_map, pc, cell_stack,
          current_cell, count, svg_out, wbt_out, q_x, q_y, ret>>

None == "None"
IndexError == "IndexError"

\* Result slot of a cell_at call that has not been made
Pending == [exc |-> "pending", cell |-> <<>>]

Directions == {"N", "S", "E", "W"}

\* Cell.wall_pairs
wall_pairs == [d \in Directions |->
                 CASE d = "N" -> "S" [] d = "S" -> "N"
                   [] d = "E" -> "W" [] d = "W" -> "E"]

\* range(n) of Python: empty when n <= 0
Range(n) == 0 .. (n - 1)

\* Cell.__init__
NewCell(x, y) == [x |-> x, y |-> y, walls |-> [d \in Directions |-> TRUE]]

\* Maze.__init__: [[Cell(x, y) for y in range(length)] for x in range(width)]
NewMazeMap(w, l) ==
    [i \in 1 .. (IF w > 0 THEN w ELSE 0) |->
        [j \in 1 .. (IF l > 0 THEN l ELSE 0) |-> NewCell(i - 1, j - 1)]]

\* Python list subscript lst[i] for a list of length n: does it raise?
PyIndexRaises(i, n) == ~((0 - n) <= i /\ i < n)

\* Python list subscript lst[i]: the 0-based position read (negative
\* subscripts count from the end of the list)
PyIndex(i, n) == IF i < 0 THEN i + n ELSE i

\* Maze.cell_at: self.maze_map[x][y]; exc is the exception raised ("None"
\* when the call returns), cell the reference <<i, j>> returned
cell_at(x, y) ==
    IF PyIndexRaises(x, Len(maze_map))
    THEN [exc |-> IndexError, cell |-> <<>>]
    ELSE LET i == PyIndex(x, Len(maze_map)) IN
         IF PyIndexRaises(y, Len(maze_map[i + 1]))
         THEN [exc |-> IndexError, cell |-> <<>>]
         ELSE [exc |-> None, cell |-> <<i, PyIndex(y, Len(maze_map[i + 1]))>>]

\* The Cell object a reference designates
Deref(r) == maze_map[r[1] + 1][r[2] + 1]

\* has_all_walls testing a single flag instead of all four
has_all_walls_one_flag(c) == c.walls["N"]

\* Cell.has_all_walls
has_all_walls(c) == \A d \in Directions : c.walls[d]

\* delta of find_valid_neighbours
delta == [d \in Directions |->
            CASE d = "W" -> <<0 - 1, 0>> [] d = "E" -> <<1, 0>>
              [] d = "S" -> <<0, 1>> [] d = "N" -> <<0, 0 - 1>>]

\* find_valid_neighbours with the lower bounds 0 <= x_2, 0 <= y_2 left out
find_valid_neighbours_no_lower_bound(r) ==
    LET cell == Deref(r)
        x_2(d) == cell.x + delta[d][1]
        y_2(d) == cell.y + delta[d][2]
    IN  { <<d, cell_at(x_2(d), y_2(d)).cell>> :
            d \in { e \in Directions :
                      /\ x_2(e) < width /\ y_2(e) < length
                      /\ cell_at(x_2(e), y_2(e)).exc = None
                      /\ has_all_walls(Deref(cell_at(x_2(e), y_2(e)).cell)) } }

\* Maze.find_valid_neighbours(cell): the set of (direction, neighbour ref)
\* pairs appended to neighbours
find_valid_neighbours(r) ==
    LET cell == Deref(r)
        x_2(d) == cell.x + delta[d][1]
        y_2(d) == cell.y + delta[d][2]
    IN  { <<d, cell_at(x_2(d), y_2(d)).cell>> :
            d \in { e \in Directions :
                      /\ 0 <= x_2(e) /\ x_2(e) < width
                      /\ 0 <= y_2(e) /\ y_2(e) < length
                      /\ has_all_walls(Deref(cell_at(x_2(e), y_2(e)).cell)) } }

\* knock_down_wall without its second assignment
knock_down_wall_one_side(m, self, other, wall) ==
    [m EXCEPT ![self[1] + 1][self[2] + 1].walls[wall] = FALSE]

\* Cell.knock_down_wall(self, other, wall) on the grid m
knock_down_wall(m, self, other, wall) ==
    LET m1 == [m EXCEPT ![self[1] + 1][self[2] + 1].walls[wall] = FALSE]
    IN  [m1 EXCEPT ![other[1] + 1][other[2] + 1].walls[wall_pairs[wall]] = FALSE]

Init ==
    /\ width \in (0 - 1) .. MaxWidth
    /\ length \in (0 - 1) .. MaxLength
    /\ x_start \in (0 - 1) .. MaxWidth
    /\ y_start \in (0 - 1) .. MaxLength
    /\ maze_map = NewMazeMap(width, length)
    /\ pc = "constructed"
    /\ cell_stack = <<>>
    /\ current_cell = <<>>
    /\ count = 0
    /\ svg_out = <<>>
    /\ wbt_out = <<>>
    /\ q_x = 0 /\ q_y = 0 /\ ret = Pending

\* make_maze, lines 234-239: size, empty stack, current_cell read, count = 1
MakeMazeBegin ==
    /\ pc = "constructed"
    /\ LET c == cell_at(x_start, y_start) IN
       IF c.exc = IndexError
       THEN /\ pc' = IndexError
            /\ cell_stack' = <<>>
            /\ UNCHANGED <<current_cell, count>>
       ELSE /\ pc' = "carving"
            /\ cell_stack' = <<>>
            /\ current_cell' = c.cell
            /\ count' = 1
    /\ UNCHANGED <<width, length, x_start, y_start, maze_map, svg_out,
                   wbt_out, q_x, q_y, ret>>

\* Backtrack reading the top of the stack without removing it
Backtrack_peek ==
    /\ pc = "carving"
    /\ count < width * length
    /\ find_valid_neighbours(current_cell) = {}
    /\ IF cell_stack = <<>>
       THEN /\ pc' = IndexError
            /\ UNCHANGED <<current_cell>>
       ELSE /\ current_cell' = cell_stack[Len(cell_stack)]
            /\ pc' = pc
    /\ UNCHANGED <<width, length, x_start, y_start, maze_map, count, svg_out,
                   wbt_out, q_x, q_y, ret, cell_stack>>

\* make_maze, lines 241-247: dead end, backtrack (pop raises on an empty list)
Backtrack ==
    /\ pc = "carving"
    /\ count < width * length
    /\ find_valid_neighbours(current_cell) = {}
    /\ IF cell_stack = <<>>
       THEN /\ pc' = IndexError
            /\ UNCHANGED <<cell_stack, current_cell>>
       ELSE /\ current_cell' = cell_stack[Len(cell_stack)]
            /\ cell_stack' = SubSeq(cell_stack, 1, Len(cell_stack) - 1)
            /\ pc' = pc
    /\ UNCHANGED <<width, length, x_start, y_start, maze_map, count, svg_out,
                   wbt_out, q_x, q_y, ret>>

\* Carve without cell_stack.append(current_cell)
Carve_no_push ==
    /\ pc = "carving"
    /\ count < width * length
    /\ \E p \in find_valid_neighbours(current_cell) :
         /\ maze_map' = knock_down_wall(maze_map, current_cell, p[2], p[1])
         /\ current_cell' = p[2]
         /\ count' = count + 1
    /\ UNCHANGED <<width, length, x_start, y_start, pc, svg_out, wbt_out,
                   q_x, q_y, ret, cell_stack>>

\* make_maze, lines 249-254: random.choice, knock the wall down, push, move
Carve ==
    /\ pc = "carving"
    /\ count < width * length
    /\ \E p \in find_valid_neighbours(current_cell) :
         /\ maze_map' = knock_down_wall(maze_map, current_cell, p[2], p[1])
         /\ cell_stack' = Append(cell_stack, current_cell)
         /\ current_cell' = p[2]
         /\ count' = count + 1
    /\ UNCHANGED <<width, length, x_start, y_start, pc, svg_out, wbt_out,
                   q_x, q_y, ret>>

\* make_maze, line 241: the loop condition fails and make_maze returns
MakeMazeReturn ==
    /\ pc = "carving"
    /\ ~(count < width * length)
    /\ pc' = "done"
    /\ UNCHANGED <<width, length, x_start, y_start, maze_map, cell_stack,
                   current_cell, count, svg_out, wbt_out, q_x, q_y, ret>>

\* str(n) of a non-negative int, as its sequence of decimal digits
Digit == <<"0", "1", "2", "3", "4", "5", "6", "7", "8", "9">>

RECURSIVE Str(_)
Str(n) == IF n < 10 THEN <<Digit[n + 1]>>
          ELSE Str(n \div 10) \o <<Digit[(n % 10) + 1]>>

\* The wall name without its y_index part
wall_name_no_y(x_index, y_index, suffix) ==
    <<"w", "a", "l", "l", "_">> \o Str(x_index) \o <<"_", suffix>>

\* f"wall_{x_index}_{y_index}_s" / f"wall_{x_index}_{y_index}_e"
wall_name(x_index, y_index, suffix) ==
    <<"w", "a", "l", "l", "_">> \o Str(x_index) \o <<"_">> \o Str(y_index)
        \o <<"_", suffix>>

\* write_world, lines 141-153: the Wall object of a South wall.  The
\* translation is kept in units of scale/2.
world_wall_s(x_index, y_index) ==
    [name |-> wall_name(x_index, y_index, "s"),
     tx |-> 0 - (2 * x_index + 1),
     ty |-> 0 - (2 * (length - y_index) - 2),
     colour |-> "1 0 0"]

\* write_world, lines 154-165: the Wall object of an East wall
world_wall_e(x_index, y_index) ==
    [name |-> wall_name(x_index, y_index, "e"),
     tx |-> 0 - (2 * x_index + 2),
     ty |-> 0 - (2 * (length - y_index) - 1),
     colour |-> "0 1 0"]

\* write_world, lines 139-165: the Wall objects printed from the k-th
\* iteration on (y_index outer, x_index inner)
RECURSIVE world_walls(_)
world_walls(k) ==
    IF width <= 0 \/ length <= 0 \/ k >= width * length THEN <<>>
    ELSE LET y_index == k \div width
             x_index == k % width
             c == Deref(cell_at(x_index, y_index).cell)
             s == IF y_index < (length - 1) /\ c.walls["S"]
                  THEN <<world_wall_s(x_index, y_index)>> ELSE <<>>
             e == IF x_index < (width - 1) /\ c.walls["E"]
                  THEN <<world_wall_e(x_index, y_index)>> ELSE <<>>
         IN  s \o e \o world_walls(k + 1)

\* write_svg, lines 180-183 and 206-210: one <line> element
write_wall(ww_x1, ww_y1, ww_x2, ww_y2, colour) ==
    [x1 |-> ww_x1, y1 |-> ww_y1, x2 |-> ww_x2, y2 |-> ww_y2, stroke |-> colour]

\* write_svg, lines 201-210: the <line> elements printed from the k-th
\* iteration on (x outer, y inner)
RECURSIVE svg_walls(_)
svg_walls(k) ==
    IF width <= 0 \/ length <= 0 \/ k >= width * length THEN <<>>
    ELSE LET x == k \div length
             y == k % length
             c == Deref(cell_at(x, y).cell)
             s == IF c.walls["S"]
                  THEN <<write_wall(x * svg_scale, (y + 1) * svg_scale,
                                    (x + 1) * svg_scale, (y + 1) * svg_scale,
                                    "red")>>
                  ELSE <<>>
             e == IF c.walls["E"]
                  THEN <<write_wall((x + 1) * svg_scale, y * svg_scale,
                                    (x + 1) * svg_scale, (y + 1) * svg_scale,
                                    "green")>>
                  ELSE <<>>
         IN  s \o e \o svg_walls(k + 1)

\* The border with its West segment left out
svg_border_north_only == << [border |-> "N", stroke |-> None] >>

\* write_svg, lines 213-214: the North and West border elements; they carry
\* no stroke attribute, and the second one is printed without formatting
svg_border ==
    << [border |-> "N", stroke |-> None],
       [border |-> "W", stroke |-> None] >>

\* Maze.write_svg (the caller is outside make_maze)
WriteSvg ==
    /\ pc \in {"constructed", "done"}
    /\ svg_out' = svg_walls(0) \o svg_border
    /\ UNCHANGED <<width, length, x_start, y_start, maze_map, pc, cell_stack,
                   current_cell, count, wbt_out, q_x, q_y, ret>>

\* Maze.write_world (the caller is outside make_maze); line 133 assigns
\* self.x_start, self.y_start = 0, 0
WriteWorld ==
    /\ pc \in {"constructed", "done"}
    /\ x_start' = 0
    /\ y_start' = 0
    /\ wbt_out' = world_walls(0)
    /\ UNCHANGED <<width, length, maze_map, pc, cell_stack, current_cell,
                   count, svg_out, q_x, q_y, ret>>

Next == MakeMazeBegin \/ Backtrack \/ Carve \/ MakeMazeReturn
          \/ WriteSvg \/ WriteWorld

Spec == Init /\ [][Next]_vars

\* make_maze is a synchronous loop: once entered, it keeps executing
\* iterations until it returns or raises.
LiveSpec == Spec /\ WF_vars(Backtrack \/ Carve \/ MakeMazeReturn)

----------------------------------------------------------------------------
\* Direct calls of Maze.cell_at(x, y) on a constructed maze, with arguments
\* drawn inside and outside the grid.

InitQuery ==
    /\ width \in (0 - 1) .. MaxWidth
    /\ length \in (0 - 1) .. MaxLength
    /\ x_start = 0
    /\ y_start = 0
    /\ maze_map = NewMazeMap(width, length)
    /\ pc = "constructed"
    /\ cell_stack = <<>>
    /\ current_cell = <<>>
    /\ count = 0
    /\ svg_out = <<>>
    /\ wbt_out = <<>>
    /\ q_x \in (0 - (MaxWidth + 1)) .. (MaxWidth + 1)
    /\ q_y \in (0 - (MaxLength + 1)) .. (MaxLength + 1)
    /\ ret = Pending

\* ret = maze.cell_at(q_x, q_y)
CallCellAt ==
    /\ pc = "constructed"
    /\ ret = Pending
    /\ ret' = cell_at(q_x, q_y)
    /\ UNCHANGED <<width, length, x_start, y_start, maze_map, pc, cell_stack,
                   current_cell, count, svg_out, wbt_out, q_x, q_y>>

NextQuery == CallCellAt

QuerySpec == InitQuery /\ [][NextQuery]_vars

----------------------------------------------------------------------------
\* Vocabulary of the properties

Cells == Range(width) \X Range(length)

\* The grid neighbour of cell a in direction d (possibly outside the grid)
Neighbour(a, d) == <<a[1] + delta[d][1], a[2] + delta[d][2]>>

\* a and b are grid-adjacent and neither side records a wall between them
Passage(a, b) ==
    \E d \in Directions :
        /\ b = Neighbour(a, d)
        /\ ~Deref(a).walls[d]
        /\ ~Deref(b).walls[wall_pairs[d]]

Edges ==
    { {q[1], Neighbour(q[1], q[2])} :
        q \in { p \in Cells \X Directions :
                  /\ Neighbour(p[1], p[2]) \in Cells
                  /\ Passage(p[1], Neighbour(p[1], p[2])) } }

RECURSIVE Reach(_)
Reach(S) ==
    LET T == S \cup { b \in Cells : \E a \in S : Passage(a, b) }
    IN  IF T = S THEN S ELSE Reach(T)

\* Passage is symmetric, so reaching every cell from one cell is enough
Connected == \A a \in Cells : a = <<0, 0>> => Reach({a}) = Cells

AllWallsIntact ==
    \A i \in DOMAIN maze_map : \A j \in DOMAIN maze_map[i] :
        has_all_walls(maze_map[i][j])

\* C1: when make_maze has returned, the passages between grid-adjacent cells
\* form a spanning tree: the graph is connected and has width*length - 1 edges.
C1_SpanningTree ==
    pc = "done" =>
        /\ Connected
        /\ Cardinality(Edges) = width * length - 1

C1_Witness ==
    /\ pc = "done"
    /\ width = 3 /\ length = 2
    /\ x_start = 1 /\ y_start = 1

\* C2: in every state, for every pair of grid-adjacent cells a and b (b the
\* neighbour of a in direction d), a records the wall toward b absent iff b
\* records the wall toward a absent.
C2_WallPairSymmetry ==
    \A a \in Cells : \A d \in Directions :
        Neighbour(a, d) \in Cells =>
            (Deref(a).walls[d] = Deref(Neighbour(a, d)).walls[wall_pairs[d]])

C2_Witness ==
    /\ pc = "carving"
    /\ count >= 2
    /\ ~AllWallsIntact

\* C3: inside the loop of make_maze, whenever count < width*length and the
\* current cell has no valid neighbour, the stack is not empty, and the pop
\* never raises.
C3_NoStackUnderflow ==
    /\ (pc = "carving" /\ count < width * length
          /\ find_valid_neighbours(current_cell) = {}) => cell_stack # <<>>
    /\ (pc = IndexError => current_cell = <<>>)   \* raised before the loop

C3_Witness ==
    /\ pc = "carving"
    /\ count < width * length
    /\ find_valid_neighbours(current_cell) = {}
    /\ Len(cell_stack) >= 2

\* C4: once make_maze has entered its loop it eventually returns, with count
\* equal to width*length; and for a single-cell maze the loop is left with
\* count = 1, an empty stack and every wall intact.
C4_Terminates ==
    /\ (pc = "carving") ~> (pc = "done" /\ count = width * length)
    /\ []((pc \in {"carving", "done"} /\ width * length = 1) =>
            (count = 1 /\ cell_stack = <<>> /\ AllWallsIntact))

C4_Witness ==
    /\ pc = "done"
    /\ count = width * length
    /\ width = 3 /\ length = 2

\* C5: a maze with a non-positive width or length is rejected: it is never in
\* a state where construction has succeeded or make_maze has been entered.
\* (No path of the code sets a rejected state.)
C5_NonPositiveRejected ==
    (width <= 0 \/ length <= 0) => pc = "rejected"

\* C6: a completed cell_at(q_x, q_y) call raised IndexError when q_x is outside
\* [0, width) or q_y outside [0, length), and otherwise returned the cell whose
\* own coordinates are (q_x, q_y).
C6_CellAtBounds ==
    ret # Pending =>
        IF q_x \in Range(width) /\ q_y \in Range(length)
        THEN /\ ret.exc = None
             /\ Deref(ret.cell).x = q_x
             /\ Deref(ret.cell).y = q_y
        ELSE ret.exc = IndexError

\* C7: on a maze with an in-grid start cell, a step taken after make_maze has
\* returned (a write_svg or write_world call) leaves every wall flag, width, length and the start coordinates
\* unchanged.
C7_RenderersReadOnly ==
    [][(pc = "done" /\ x_start \in Range(width) /\ y_start \in Range(length)) =>
          /\ maze_map' = maze_map
          /\ width' = width /\ length' = length
          /\ x_start' = x_start /\ y_start' = y_start]_vars

\* C8: the Wall objects written by write_world carry pairwise different
\* names; each name is wall_<x>_<y>_s or wall_<x>_<y>_e of an in-grid cell
\* (x, y).
C8_UniqueWallNames ==
    /\ \A i \in DOMAIN wbt_out : \A j \in DOMAIN wbt_out :
          wbt_out[i].name = wbt_out[j].name => i = j
    /\ \A i \in DOMAIN wbt_out :
          \E c \in Cells : \E k \in {"s", "e"} :
              wbt_out[i].name =
                  <<"w", "a", "l", "l", "_">> \o Str(c[1]) \o <<"_">>
                      \o Str(c[2]) \o <<"_", k>>

C8_Witness ==
    /\ pc = "done"
    /\ Len(wbt_out) >= 4
    /\ \E i \in DOMAIN wbt_out : \E j \in DOMAIN wbt_out :
          /\ wbt_out[i].colour = "1 0 0"
          /\ wbt_out[j].colour = "0 1 0"

SouthCells == { c \in Cells : Deref(c).walls["S"] }
EastCells == { c \in Cells : Deref(c).walls["E"] }

Stroked(colour) == { i \in DOMAIN svg_out : svg_out[i].stroke = colour }

\* The elements of svg_out are one red segment per cell whose South wall is
\* present, one green segment per cell whose East wall is present, and two
\* border segments
SvgSegmentsOK ==
    /\ Len(svg_out) = Cardinality(SouthCells) + Cardinality(EastCells) + 2
    /\ Cardinality(Stroked("red")) = Cardinality(SouthCells)
    /\ Cardinality(Stroked("green")) = Cardinality(EastCells)
    /\ Cardinality(Stroked(None)) = 2
    /\ \A c \in SouthCells : \E i \in Stroked("red") :
          /\ svg_out[i].x1 = c[1] * svg_scale
          /\ svg_out[i].x2 = (c[1] + 1) * svg_scale
          /\ svg_out[i].y1 = (c[2] + 1) * svg_scale
          /\ svg_out[i].y2 = (c[2] + 1) * svg_scale
    /\ \A c \in EastCells : \E i \in Stroked("green") :
          /\ svg_out[i].x1 = (c[1] + 1) * svg_scale
          /\ svg_out[i].x2 = (c[1] + 1) * svg_scale
          /\ svg_out[i].y1 = c[2] * svg_scale
          /\ svg_out[i].y2 = (c[2] + 1) * svg_scale

\* C9: whenever write_svg writes its output, the <line> elements written are
\* exactly one segment per cell whose South wall is present, one per cell
\* whose East wall is present, plus two border segments: their number is
\* (#cells with S) + (#cells with E) + 2, for the wall state of the call.
C9_SvgSegments ==
    [][svg_out' # svg_out => SvgSegmentsOK']_vars

C9_Witness ==
    /\ pc = "done"
    /\ width = 3 /\ length = 2
    /\ svg_out # <<>>
    /\ SvgSegmentsOK
    /\ Len(svg_out) = 9

\* The wall flags (cell, direction) whose value differs between m1 and m2
Changed(m1, m2) ==
    { p \in Cells \X Directions :
        m1[p[1][1] + 1][p[1][2] + 1].walls[p[2]]
            # m2[p[1][1] + 1][p[1][2] + 1].walls[p[2]] }

BoundaryIntact ==
    \A c \in Cells :
        /\ c[1] = 0 => Deref(c).walls["W"]
        /\ c[1] = width - 1 => Deref(c).walls["E"]
        /\ c[2] = 0 => Deref(c).walls["N"]
        /\ c[2] = length - 1 => Deref(c).walls["S"]

\* C10: the outer boundary walls are never broken; a step that changes wall
\* flags clears exactly the two facing flags of one pair of in-grid adjacent
\* cells, and no flag ever goes back from absent to present.
C10_BoundaryKept ==
    /\ []BoundaryIntact
    /\ [][/\ \A p \in Changed(maze_map, maze_map') : Deref(p[1]).walls[p[2]]
          /\ maze_map' # maze_map =>
               \E a \in Cells : \E d \in Directions :
                   /\ Neighbour(a, d) \in Cells
                   /\ Changed(maze_map, maze_map') =
                        {<<a, d>>, <<Neighbour(a, d), wall_pairs[d]>>}]_vars

C10_Witness ==
    /\ pc = "done"
    /\ width = 3 /\ length = 2
    /\ ~Deref(<<0, 0>>).walls["E"]
    /\ ~Deref(<<2, 1>>).walls["N"]
====
